---- MODULE Spec2Model ----
(***************************************************************************)
(* HID Origo integration: the bearer-token manager (src/api/auth.py), the  *)
(* in-memory and networked credential engines (src/api/credentials.py),    *)
(* and the callback registry (src/api/callbacks.py).                       *)
(*                                                                         *)
(* Time is the value of time.time(), in whole seconds.  A call that does   *)
(* not wait on the network runs within one clock instant; the clock moves  *)
(* only while every caller is idle or waiting for a response.              *)
(***************************************************************************)
EXTENDS Integers, Sequences, FiniteSets, TLC

VARIABLES
    now,        \* time.time()
    ticks,      \* number of clock advances so far
    token,      \* OrigoAuth._token: 0 (None) or the index in heap of the cached record
    heap,       \* every TokenResponse object constructed so far, in order
    pc,         \* per caller: position in the call it is running
    entry,      \* per caller: the method it called
    sent,       \* per caller: token requests sent by its current authenticate()
    result,     \* per caller: what its last call returned or raised
    exchanges,  \* token requests sent in total
    grant,      \* the last token response of the platform, and when it arrived
    netSent,    \* per caller: pass requests sent by its current networked call
    bearer,     \* per caller: the token in the Authorization header of its request
    headers,    \* per caller: the headers its request left with (empty: none sent)
    reply,      \* per caller: the HTTP status that answered its request (0: none)
    arg,        \* inputs of a single is_expired evaluation
    out,        \* its result
    secret,     \* two runs' issuance token values, as sequences of characters
    printed,    \* what each of the two runs wrote to standard output
    passes,     \* MockCredentialManagementAPI._passes
    nextId,     \* pass ids handed out so far + 1 (uuid4 never repeats)
    nextTok,    \* issuance tokens generated so far + 1 (uuid4 never repeats)
    target,     \* per caller: the pass_id of the engine call it is running
    log,        \* the calls made on the in-memory engine, with their outcomes
    regs,       \* every CallbackRegistration object constructed so far, in order
    registry,   \* MockCallbackAPI._registrations: id -> index in regs
    nextCb,     \* callback ids handed out so far + 1 (uuid4 never repeats)
    cblog,      \* the calls made on the callback registry, with their outcomes
    payload,    \* the inbound dict handed to CloudEvent.from_dict
    event,      \* what from_dict returned or raised
    meaning,    \* what interpret() returned or raised for that event
    batch,      \* per request: the CloudEvents batch the webhook handler received
    pos,        \* per request: the index in its batch of the event it handles next
    handled     \* the handler invocations of the webhook endpoint, in order

vars == <<now, ticks, token, heap, pc, entry, sent, result, exchanges,
          grant, netSent, bearer, headers, reply, arg, out, secret, printed,
          passes, nextId, nextTok, target, log, regs, registry, nextCb, cblog,
          payload, event, meaning, batch, pos, handled>>

netVars == <<netSent, bearer, headers, reply>>
authVars == <<now, ticks, token, heap, pc, entry, sent, result,
              exchanges, grant, netVars>>
pureVars == <<arg, out, secret, printed>>
passVars == <<passes, nextId, nextTok, target, log>>
cbVars == <<regs, registry, nextCb, cblog>>
eventVars == <<payload, event, meaning>>
ingestVars == <<batch, pos, handled>>

-----------------------------------------------------------------------------
(* Program constants *)

BufferSeconds == 60
DefaultExpiresIn == 3600

(* Bounds *)

MaxTicks == 3
MaxExchanges == 2

Callers == {"c1", "c2"}
Main == "c1"

\* The response's expires_in: a declared number of seconds, or the key is absent.
Absent == -1
ExpiresInValues == {60, 61, 3600}
TickSteps == {1, 10, 3539}

-----------------------------------------------------------------------------
(* TokenResponse *)

\* is_expired with the comparison off by one (elapsed > ... instead of >=).
IsExpiredStrict(tok, t, buffer_seconds) ==
    IF tok.obtained_at = 0 THEN TRUE
    ELSE (t - tok.obtained_at) > (tok.expires_in - buffer_seconds)

IsExpired(tok, t, buffer_seconds) ==
    IF tok.obtained_at = 0 THEN TRUE
    ELSE (t - tok.obtained_at) >= (tok.expires_in - buffer_seconds)

\* The record authenticate() builds from the response `data` (its access_token
\* and expires_in) at time t.
NewTokenUnstamped(access, expires, t) ==
    [access_token |-> access,
     expires_in   |-> IF expires = Absent THEN DefaultExpiresIn ELSE expires,
     obtained_at  |-> 0]

NewToken(access, expires, t) ==
    [access_token |-> access,
     expires_in   |-> IF expires = Absent THEN DefaultExpiresIn ELSE expires,
     obtained_at  |-> t]

NoResult == [kind |-> "none"]
Raised(e) == [kind |-> "raised", exc |-> e]
Returned(v) == [kind |-> "value", val |-> v]

NoGrant == [at |-> 0, expires_in |-> Absent]

\* get_token's condition: not self._token or self._token.is_expired()
NeedsRefresh ==
    IF token = 0 THEN TRUE ELSE IsExpired(heap[token], now, BufferSeconds)

-----------------------------------------------------------------------------
(* OrigoAuth: get_token, authenticate *)

\* get_token(): evaluates the condition; authenticate() follows when it holds,
\* the return statement when it does not.
CallGetToken(c) ==
    /\ pc[c] = "idle"
    /\ entry' = [entry EXCEPT ![c] = "get_token"]
    /\ sent' = [sent EXCEPT ![c] = 0]
    /\ pc' = [pc EXCEPT ![c] = IF NeedsRefresh THEN "auth" ELSE "ret"]
    /\ UNCHANGED <<now, ticks, token, heap, result, exchanges, grant, netVars>>
    /\ UNCHANGED <<pureVars, passVars, cbVars, eventVars, ingestVars>>

\* authenticate() called directly.
CallAuthenticate(c) ==
    /\ pc[c] = "idle"
    /\ entry' = [entry EXCEPT ![c] = "authenticate"]
    /\ sent' = [sent EXCEPT ![c] = 0]
    /\ pc' = [pc EXCEPT ![c] = "auth"]
    /\ UNCHANGED <<now, ticks, token, heap, result, exchanges, grant, netVars>>
    /\ UNCHANGED <<pureVars, passVars, cbVars, eventVars, ingestVars>>

\* requests.post(token_endpoint, ...): the request leaves.
SendAuth(c) ==
    /\ pc[c] = "auth"
    /\ exchanges < MaxExchanges
    /\ exchanges' = exchanges + 1
    /\ sent' = [sent EXCEPT ![c] = @ + 1]
    /\ pc' = [pc EXCEPT ![c] = "wait"]
    /\ UNCHANGED <<now, ticks, token, heap, entry, result, grant, netVars>>
    /\ UNCHANGED <<pureVars, passVars, cbVars, eventVars, ingestVars>>

\* A 2xx response carrying expires_in = e (or no expires_in): a new
\* TokenResponse is built and cached; authenticate() returns it, and
\* get_token() goes on to its return statement.
AuthOk(c, e) ==
    /\ pc[c] = "wait"
    /\ heap' = Append(heap, NewToken(Len(heap) + 1, e, now))
    /\ token' = Len(heap) + 1
    /\ grant' = [at |-> now, expires_in |-> e]
    /\ pc' = [pc EXCEPT ![c] = IF entry[c] = "authenticate" THEN "idle" ELSE "ret"]
    /\ result' = [result EXCEPT ![c] =
                    IF entry[c] = "authenticate" THEN Returned(Len(heap) + 1) ELSE @]
    /\ UNCHANGED <<now, ticks, entry, sent, exchanges, netVars>>
    /\ UNCHANGED <<pureVars, passVars, cbVars, eventVars, ingestVars>>

\* authenticate() answering a failure by sending the request again.
AuthFailRetry(c) ==
    /\ pc[c] = "wait"
    /\ pc' = [pc EXCEPT ![c] = "auth"]
    /\ UNCHANGED <<now, ticks, token, heap, entry, sent, result, exchanges, grant,
                   netVars>>
    /\ UNCHANGED <<pureVars, passVars, cbVars, eventVars, ingestVars>>

\* authenticate() dropping the cached token when the exchange fails.
AuthFailClear(c) ==
    /\ pc[c] = "wait"
    /\ token' = 0
    /\ pc' = [pc EXCEPT ![c] = "idle"]
    /\ result' = [result EXCEPT ![c] = Raised("RequestException")]
    /\ UNCHANGED <<now, ticks, heap, entry, sent, exchanges, grant, netVars>>
    /\ UNCHANGED <<pureVars, passVars, cbVars, eventVars, ingestVars>>

\* The request fails (transport error, timeout, or an error status turned into
\* an exception by raise_for_status): the exception is re-raised to the caller.
AuthFail(c) ==
    /\ pc[c] = "wait"
    /\ pc' = [pc EXCEPT ![c] = "idle"]
    /\ result' = [result EXCEPT ![c] = Raised("RequestException")]
    /\ UNCHANGED <<now, ticks, token, heap, entry, sent, exchanges, grant, netVars>>
    /\ UNCHANGED <<pureVars, passVars, cbVars, eventVars, ingestVars>>

\* get_token() renewing the cached record each time it is handed out.
ReturnTokenRenew(c) ==
    /\ pc[c] = "ret"
    /\ entry[c] = "get_token"
    /\ pc' = [pc EXCEPT ![c] = "idle"]
    /\ heap' = [heap EXCEPT ![token].obtained_at = now,
                            ![token].expires_in = DefaultExpiresIn]
    /\ result' = [result EXCEPT ![c] = Returned(heap[token].access_token)]
    /\ UNCHANGED <<now, ticks, token, entry, sent, exchanges, grant, netVars>>
    /\ UNCHANGED <<pureVars, passVars, cbVars, eventVars, ingestVars>>

\* get_token(): return self._token.access_token
ReturnToken(c) ==
    /\ pc[c] = "ret"
    /\ entry[c] = "get_token"
    /\ pc' = [pc EXCEPT ![c] = "idle"]
    /\ result' = [result EXCEPT ![c] = Returned(heap[token].access_token)]
    /\ UNCHANGED <<now, ticks, token, heap, entry, sent, exchanges, grant, netVars>>
    /\ UNCHANGED <<pureVars, passVars, cbVars, eventVars, ingestVars>>

\* time.time() moves on by d seconds while nobody is running.
Tick(d) ==
    /\ ticks < MaxTicks
    /\ \A c \in Callers : pc[c] \in {"idle", "wait", "resp"}
    /\ now' = now + d
    /\ ticks' = ticks + 1
    /\ UNCHANGED <<token, heap, pc, entry, sent, result, exchanges, grant, netVars>>
    /\ UNCHANGED <<pureVars, passVars, cbVars, eventVars, ingestVars>>

-----------------------------------------------------------------------------
InitAuth ==
    /\ now = 1
    /\ ticks = 0
    /\ token = 0
    /\ heap = <<>>
    /\ pc = [c \in Callers |-> "idle"]
    /\ entry = [c \in Callers |-> "none"]
    /\ sent = [c \in Callers |-> 0]
    /\ result = [c \in Callers |-> NoResult]
    /\ exchanges = 0
    /\ grant = NoGrant
    /\ netSent = [c \in Callers |-> 0]
    /\ bearer = [c \in Callers |-> 0]
    /\ headers = [c \in Callers |-> <<>>]
    /\ reply = [c \in Callers |-> 0]

InitPure ==
    /\ arg = [obtained_at |-> 0, expires_in |-> 0, now |-> 0]
    /\ out = NoResult
    /\ secret = <<<<>>, <<>>>>
    /\ printed = <<NoResult, NoResult>>

InitPass ==
    /\ passes = <<>>
    /\ nextId = 1
    /\ nextTok = 1
    /\ target = [c \in Callers |-> 0]
    /\ log = <<>>

InitCallbacks ==
    /\ regs = <<>>
    /\ registry = <<>>
    /\ nextCb = 1
    /\ cblog = <<>>

InitEvent ==
    /\ payload = <<>>
    /\ event = NoResult
    /\ meaning = NoResult

InitIngest ==
    /\ batch = [c \in Callers |-> <<>>]
    /\ pos = [c \in Callers |-> 1]
    /\ handled = <<>>

Init == InitAuth /\ InitPure /\ InitPass /\ InitCallbacks /\ InitEvent /\ InitIngest

\* One caller, and the clock.
Next ==
    \/ CallGetToken(Main)
    \/ CallAuthenticate(Main)
    \/ SendAuth(Main)
    \/ \E e \in ExpiresInValues \cup {Absent} : AuthOk(Main, e)
    \/ AuthFail(Main)
    \/ ReturnToken(Main)
    \/ \E d \in TickSteps : Tick(d)

Spec == Init /\ [][Next]_vars

\* TokenResponse(access_token, token_type, expires_in): obtained_at keeps its
\* default 0.  is_expired() is evaluated on such a record while time.time() is
\* the current clock value.
EvaluateUnstamped(e) ==
    /\ arg' = [arg EXCEPT !.obtained_at = 0, !.expires_in = e]
    /\ out' = Returned(IsExpired(arg', now, BufferSeconds))
    /\ UNCHANGED <<secret, printed, authVars, passVars, cbVars, eventVars, ingestVars>>

\* One caller, the clock, and records nobody stamped.
NextAging ==
    \/ CallGetToken(Main)
    \/ CallAuthenticate(Main)
    \/ SendAuth(Main)
    \/ \E e \in ExpiresInValues \cup {Absent} : AuthOk(Main, e)
    \/ AuthFail(Main)
    \/ ReturnToken(Main)
    \/ \E d \in TickSteps : Tick(d)
    \/ \E e \in {DefaultExpiresIn} : EvaluateUnstamped(e)

SpecAging == Init /\ [][NextAging]_vars

\* Concurrent callers at one clock instant.
NextConc ==
    \E c \in Callers :
        \/ CallGetToken(c)
        \/ CallAuthenticate(c)
        \/ SendAuth(c)
        \/ \E e \in ExpiresInValues \cup {Absent} : AuthOk(c, e)
        \/ AuthFail(c)
        \/ ReturnToken(c)

SpecConc == Init /\ [][NextConc]_vars

-----------------------------------------------------------------------------
(* TokenResponse.is_expired on its own: any record, any clock value *)

ObtainedAtInputs == {0, 1, 100}
ExpiresInInputs == {0, 60, 61, 3600}
NowInputs == {0, 1, 2, 100, 101, 3639, 3640, 3641}

InitExpiry ==
    /\ InitAuth
    /\ InitPass
    /\ InitCallbacks
    /\ InitEvent
    /\ InitIngest
    /\ secret = <<<<>>, <<>>>>
    /\ printed = <<NoResult, NoResult>>
    /\ arg \in [obtained_at : ObtainedAtInputs, expires_in : ExpiresInInputs,
                now : NowInputs]
    /\ out = NoResult

\* tok.is_expired() evaluated while time.time() = arg.now
Evaluate ==
    /\ out = NoResult
    /\ out' = Returned(IsExpired(arg, arg.now, BufferSeconds))
    /\ UNCHANGED <<arg, secret, printed, authVars, passVars, cbVars, eventVars, ingestVars>>

NextExpiry == Evaluate

SpecExpiry == InitExpiry /\ [][NextExpiry]_vars

-----------------------------------------------------------------------------
(* What get_issuance_token writes to standard output, as a function of the  *)
(* token value.  Two runs are kept side by side: they call the same method  *)
(* with the same pass_id and differ in the token value only, so everything  *)
(* they print besides the token line is the same text.                      *)

\* len(f"IT_{uuid.uuid4().hex}")
TokenLen == 35
\* token.token[:20] and token.token[:30]
NetPrintedChars == 20
MockPrintedChars == 30

HexChars == {"0", "f"}

\* A token value: "IT_", then hex characters a (up to position 20), b (up to
\* position 30) and c (the rest).
MkToken(a, b, c) ==
    [i \in 1..TokenLen |->
        IF i = 1 THEN "I" ELSE IF i = 2 THEN "T" ELSE IF i = 3 THEN "_"
        ELSE IF i <= NetPrintedChars THEN a
        ELSE IF i <= MockPrintedChars THEN b ELSE c]

TokenValues == {MkToken(a, b, c) : a \in HexChars, b \in HexChars, c \in HexChars}

\* s[:n]
Prefix(s, n) == SubSeq(s, 1, IF n < Len(s) THEN n ELSE Len(s))

InitLeak ==
    /\ InitAuth
    /\ InitPass
    /\ InitCallbacks
    /\ InitEvent
    /\ InitIngest
    /\ arg = [obtained_at |-> 0, expires_in |-> 0, now |-> 0]
    /\ out = NoResult
    /\ secret \in TokenValues \X TokenValues
    /\ printed = <<NoResult, NoResult>>

\* The networked get_issuance_token prints the first 20 characters of the token.
NetPrintToken ==
    /\ printed = <<NoResult, NoResult>>
    /\ printed' = <<Returned(Prefix(secret[1], NetPrintedChars)),
                    Returned(Prefix(secret[2], NetPrintedChars))>>
    /\ UNCHANGED <<arg, out, secret, authVars, passVars, cbVars, eventVars, ingestVars>>

\* The in-memory get_issuance_token prints the first 30 characters of the token.
MockPrintToken ==
    /\ printed = <<NoResult, NoResult>>
    /\ printed' = <<Returned(Prefix(secret[1], MockPrintedChars)),
                    Returned(Prefix(secret[2], MockPrintedChars))>>
    /\ UNCHANGED <<arg, out, secret, authVars, passVars, cbVars, eventVars, ingestVars>>

NextLeak ==
    \/ NetPrintToken
    \/ MockPrintToken

SpecLeak == InitLeak /\ [][NextLeak]_vars

-----------------------------------------------------------------------------
(* MockCredentialManagementAPI: the in-memory engine *)

MaxPasses == 2
MaxCalls == 4

PassIds == 1..MaxPasses
Users == {"u1", "u2"}
Templates == {"tmpl"}

\* The status stored for pass_id, or "absent" when pass_id is not a key.
StatusOf(ps, id) == IF id \in DOMAIN ps THEN ps[id].status ELSE "absent"

\* One call on the engine: what it was, what it found, what it left, how it ended.
Call(op, id, before, after, outcome, ret, changed) ==
    [op |-> op, id |-> id, before |-> before, after |-> after,
     outcome |-> outcome, ret |-> ret, changed |-> changed]

\* uuid4 replaced by the number of stored passes + 1.
CountedPassId == Cardinality(DOMAIN passes) + 1

\* uuid4().hex: a value no earlier call has produced.
FreshPassId == nextId

\* create_pass: a new Pass under a fresh id, status PENDING, stored and returned.
\* The entry keeps the arguments given and the Pass returned.
MockCreatePass(u, t) ==
    /\ Len(log) < MaxCalls
    /\ nextId <= MaxPasses
    /\ LET id == FreshPassId
           p == [id |-> id, user_id |-> u, pass_template_id |-> t,
                 status |-> "PENDING", credentials |-> <<"SEOS">>]
       IN  /\ passes' = [i \in DOMAIN passes \cup {id} |->
                            IF i = id THEN p ELSE passes[i]]
           /\ log' = Append(log, [op |-> "create", id |-> id,
                                  before |-> StatusOf(passes, id),
                                  after |-> p.status, outcome |-> "ok",
                                  ret |-> p.status, changed |-> TRUE,
                                  user_id |-> u, pass_template_id |-> t,
                                  pass |-> p])
    /\ nextId' = nextId + 1
    /\ UNCHANGED <<nextTok, target, authVars, pureVars, cbVars, eventVars, ingestVars>>

\* suspend_pass refusing a pass that is already SUSPENDED.
MockSuspendPassOnce(id) ==
    /\ Len(log) < MaxCalls
    /\ IF id \in DOMAIN passes /\ passes[id].status # "SUSPENDED"
       THEN /\ passes' = [passes EXCEPT ![id].status = "SUSPENDED"]
            /\ log' = Append(log, Call("suspend", id, passes[id].status, "SUSPENDED",
                                       "ok", "SUSPENDED", TRUE))
       ELSE /\ passes' = passes
            /\ log' = Append(log, Call("suspend", id, StatusOf(passes, id),
                                       StatusOf(passes, id), "ValueError", "none", FALSE))
    /\ UNCHANGED <<nextId, nextTok, target, authVars, pureVars, cbVars, eventVars, ingestVars>>

\* suspend_pass storing a rebuilt Pass that has lost its user_id.
MockSuspendPassRebuilt(id) ==
    /\ Len(log) < MaxCalls
    /\ IF id \in DOMAIN passes
       THEN /\ passes' = [passes EXCEPT ![id] =
                            [id |-> id, user_id |-> "",
                             pass_template_id |-> passes[id].pass_template_id,
                             status |-> "SUSPENDED",
                             credentials |-> passes[id].credentials]]
            /\ log' = Append(log, Call("suspend", id, passes[id].status, "SUSPENDED",
                                       "ok", "SUSPENDED",
                                       passes[id].status # "SUSPENDED"))
       ELSE /\ passes' = passes
            /\ log' = Append(log, Call("suspend", id, "absent", "absent",
                                       "ValueError", "none", FALSE))
    /\ UNCHANGED <<nextId, nextTok, target, authVars, pureVars, cbVars, eventVars, ingestVars>>

\* suspend_pass: a stored pass gets status SUSPENDED and is returned; an unknown
\* id raises ValueError.
MockSuspendPass(id) ==
    /\ Len(log) < MaxCalls
    /\ IF id \in DOMAIN passes
       THEN /\ passes' = [passes EXCEPT ![id].status = "SUSPENDED"]
            /\ log' = Append(log, Call("suspend", id, passes[id].status, "SUSPENDED",
                                       "ok", "SUSPENDED",
                                       passes[id].status # "SUSPENDED"))
       ELSE /\ passes' = passes
            /\ log' = Append(log, Call("suspend", id, "absent", "absent",
                                       "ValueError", "none", FALSE))
    /\ UNCHANGED <<nextId, nextTok, target, authVars, pureVars, cbVars, eventVars, ingestVars>>

\* resume_pass storing an ACTIVE pass under an id it does not know.
MockResumePassUpsert(id) ==
    /\ Len(log) < MaxCalls
    /\ passes' = [i \in DOMAIN passes \cup {id} |->
                     IF i = id
                     THEN IF id \in DOMAIN passes
                          THEN [passes[id] EXCEPT !.status = "ACTIVE"]
                          ELSE [id |-> id, user_id |-> "", pass_template_id |-> "",
                                status |-> "ACTIVE", credentials |-> <<>>]
                     ELSE passes[i]]
    /\ log' = Append(log, Call("resume", id, StatusOf(passes, id), "ACTIVE",
                               "ok", "ACTIVE", StatusOf(passes, id) # "ACTIVE"))
    /\ UNCHANGED <<nextId, nextTok, target, authVars, pureVars, cbVars, eventVars, ingestVars>>

\* resume_pass: a stored pass gets status ACTIVE and is returned; an unknown id
\* raises ValueError.
MockResumePass(id) ==
    /\ Len(log) < MaxCalls
    /\ IF id \in DOMAIN passes
       THEN /\ passes' = [passes EXCEPT ![id].status = "ACTIVE"]
            /\ log' = Append(log, Call("resume", id, passes[id].status, "ACTIVE",
                                       "ok", "ACTIVE", passes[id].status # "ACTIVE"))
       ELSE /\ passes' = passes
            /\ log' = Append(log, Call("resume", id, "absent", "absent",
                                       "ValueError", "none", FALSE))
    /\ UNCHANGED <<nextId, nextTok, target, authVars, pureVars, cbVars, eventVars, ingestVars>>

\* delete_pass answering True without removing the key.
MockDeletePassKeeps(id) ==
    /\ Len(log) < MaxCalls
    /\ passes' = passes
    /\ log' = Append(log, Call("delete", id, StatusOf(passes, id),
                               StatusOf(passes', id), "ok", "True", FALSE))
    /\ UNCHANGED <<nextId, nextTok, target, authVars, pureVars, cbVars, eventVars, ingestVars>>

\* delete_pass emptying the whole store when the key is present.
MockDeletePassAll(id) ==
    /\ Len(log) < MaxCalls
    /\ passes' = IF id \in DOMAIN passes THEN <<>> ELSE passes
    /\ log' = Append(log, Call("delete", id, StatusOf(passes, id),
                               StatusOf(passes', id), "ok", "True",
                               id \in DOMAIN passes))
    /\ UNCHANGED <<nextId, nextTok, target, authVars, pureVars, cbVars, eventVars, ingestVars>>

\* delete_pass marking the stored pass DELETED instead of removing it.
MockDeletePassSoft(id) ==
    /\ Len(log) < MaxCalls
    /\ passes' = IF id \in DOMAIN passes
                 THEN [passes EXCEPT ![id].status = "DELETED"] ELSE passes
    /\ log' = Append(log, Call("delete", id, StatusOf(passes, id),
                               StatusOf(passes', id), "ok", "True",
                               id \in DOMAIN passes))
    /\ UNCHANGED <<nextId, nextTok, target, authVars, pureVars, cbVars, eventVars, ingestVars>>

\* delete_pass: the key is removed when present; True is returned either way.
MockDeletePass(id) ==
    /\ Len(log) < MaxCalls
    /\ passes' = [i \in DOMAIN passes \ {id} |-> passes[i]]
    /\ log' = Append(log, Call("delete", id, StatusOf(passes, id),
                               StatusOf(passes', id), "ok", "True",
                               id \in DOMAIN passes))
    /\ UNCHANGED <<nextId, nextTok, target, authVars, pureVars, cbVars, eventVars, ingestVars>>

\* A token value derived from the pass id alone.
TokenOfPass(id) == id

\* f"IT_{uuid.uuid4().hex}": a value no earlier call has produced, whatever the
\* pass_id.
FreshToken(id) == nextTok

\* get_issuance_token: a fresh token value bound to pass_id, returned for any
\* pass_id whatever; _passes is not consulted and nothing is kept.  The entry
\* keeps the token returned.
MockGetIssuanceToken(id) ==
    /\ Len(log) < MaxCalls
    /\ LET tok == [token |-> FreshToken(id), pass_id |-> id]
       IN  log' = Append(log, [op |-> "token", id |-> id,
                               before |-> StatusOf(passes, id),
                               after |-> StatusOf(passes, id), outcome |-> "ok",
                               ret |-> "IssuanceToken", changed |-> FALSE,
                               token |-> tok])
    /\ nextTok' = nextTok + 1
    /\ UNCHANGED <<passes, nextId, target, authVars, pureVars, cbVars, eventVars, ingestVars>>

NextPass ==
    \/ \E u \in Users, t \in Templates : MockCreatePass(u, t)
    \/ \E id \in PassIds : MockGetIssuanceToken(id)
    \/ \E id \in PassIds : MockSuspendPass(id)
    \/ \E id \in PassIds : MockResumePass(id)
    \/ \E id \in PassIds : MockDeletePass(id)

SpecPass == Init /\ [][NextPass]_vars

-----------------------------------------------------------------------------
(* The in-memory engine called from two threads.  A thread switch can fall  *)
(* between any two accesses to _passes: the membership test, the subscript  *)
(* that precedes the status assignment or the del, and the subscript of     *)
(* the return statement.                                                    *)

EngineOps == {"suspend_pass", "resume_pass", "delete_pass"}

\* The status suspend_pass and resume_pass assign.
Assigned(op) == IF op = "suspend_pass" THEN "SUSPENDED" ELSE "ACTIVE"

\* A thread enters suspend_pass, resume_pass or delete_pass with pass_id = id.
BeginEngineCall(c, op, id) ==
    /\ pc[c] = "idle"
    /\ pc' = [pc EXCEPT ![c] = "m_check"]
    /\ entry' = [entry EXCEPT ![c] = op]
    /\ target' = [target EXCEPT ![c] = id]
    /\ result' = [result EXCEPT ![c] = NoResult]
    /\ UNCHANGED <<now, ticks, token, heap, sent, exchanges, grant, netVars>>
    /\ UNCHANGED <<passes, nextId, nextTok, log, pureVars, cbVars, eventVars, ingestVars>>

\* `if pass_id in self._passes`: an unknown id ends suspend_pass and resume_pass
\* with ValueError and delete_pass with True.
CheckPresent(c) ==
    /\ pc[c] = "m_check"
    /\ IF target[c] \in DOMAIN passes
       THEN /\ pc' = [pc EXCEPT ![c] = "m_write"]
            /\ result' = result
       ELSE /\ pc' = [pc EXCEPT ![c] = "idle"]
            /\ result' = [result EXCEPT ![c] =
                            IF entry[c] = "delete_pass" THEN Returned("True")
                            ELSE Raised("ValueError")]
    /\ UNCHANGED <<now, ticks, token, heap, entry, sent, exchanges, grant, netVars>>
    /\ UNCHANGED <<passVars, pureVars, cbVars, eventVars, ingestVars>>

\* `self._passes[pass_id].status = ...`: the subscript raises KeyError when the
\* key has gone since the test.
WriteStatus(c) ==
    /\ pc[c] = "m_write"
    /\ entry[c] \in {"suspend_pass", "resume_pass"}
    /\ IF target[c] \in DOMAIN passes
       THEN /\ passes' = [passes EXCEPT ![target[c]].status = Assigned(entry[c])]
            /\ pc' = [pc EXCEPT ![c] = "m_ret"]
            /\ result' = result
       ELSE /\ passes' = passes
            /\ pc' = [pc EXCEPT ![c] = "idle"]
            /\ result' = [result EXCEPT ![c] = Raised("KeyError")]
    /\ UNCHANGED <<now, ticks, token, heap, entry, sent, exchanges, grant, netVars>>
    /\ UNCHANGED <<nextId, nextTok, target, log, pureVars, cbVars, eventVars, ingestVars>>

\* `return self._passes[pass_id]`: the stored object as it is now, or KeyError.
ReturnStored(c) ==
    /\ pc[c] = "m_ret"
    /\ pc' = [pc EXCEPT ![c] = "idle"]
    /\ result' = [result EXCEPT ![c] =
                    IF target[c] \in DOMAIN passes
                    THEN Returned(passes[target[c]].status)
                    ELSE Raised("KeyError")]
    /\ UNCHANGED <<now, ticks, token, heap, entry, sent, exchanges, grant, netVars>>
    /\ UNCHANGED <<passVars, pureVars, cbVars, eventVars, ingestVars>>

\* `del self._passes[pass_id]`, then True: KeyError when the key has gone since
\* the test.
DelKey(c) ==
    /\ pc[c] = "m_write"
    /\ entry[c] = "delete_pass"
    /\ passes' = [i \in DOMAIN passes \ {target[c]} |-> passes[i]]
    /\ pc' = [pc EXCEPT ![c] = "idle"]
    /\ result' = [result EXCEPT ![c] =
                    IF target[c] \in DOMAIN passes THEN Returned("True")
                    ELSE Raised("KeyError")]
    /\ UNCHANGED <<now, ticks, token, heap, entry, sent, exchanges, grant, netVars>>
    /\ UNCHANGED <<nextId, nextTok, target, log, pureVars, cbVars, eventVars, ingestVars>>

\* The passes are created for one user: who owns a pass plays no part here.
NextPassConc ==
    \/ \E t \in Templates : MockCreatePass("u1", t)
    \/ \E c \in Callers, op \in EngineOps, id \in PassIds : BeginEngineCall(c, op, id)
    \/ \E c \in Callers : CheckPresent(c)
    \/ \E c \in Callers : WriteStatus(c)
    \/ \E c \in Callers : ReturnStored(c)
    \/ \E c \in Callers : DelKey(c)

SpecPassConc == Init /\ [][NextPassConc]_vars

-----------------------------------------------------------------------------
(* CredentialManagementAPI: the networked client *)

\* Statuses the platform may answer a request with.
StatusCodes == {204, 404, 500}

\* delete_pass(pass_id): get_headers() first, which calls get_token().
CallDeletePass(c) ==
    /\ pc[c] = "idle"
    /\ entry' = [entry EXCEPT ![c] = "delete_pass"]
    /\ sent' = [sent EXCEPT ![c] = 0]
    /\ netSent' = [netSent EXCEPT ![c] = 0]
    /\ bearer' = [bearer EXCEPT ![c] = 0]
    /\ headers' = [headers EXCEPT ![c] = <<>>]
    /\ reply' = [reply EXCEPT ![c] = 0]
    /\ pc' = [pc EXCEPT ![c] = IF NeedsRefresh THEN "auth" ELSE "ret"]
    /\ UNCHANGED <<now, ticks, token, heap, result, exchanges, grant>>
    /\ UNCHANGED <<pureVars, passVars, cbVars, eventVars, ingestVars>>

\* The networked methods that answer with Pass.from_api_response(response.json()).
PassReads == {"get_pass", "suspend_pass", "resume_pass"}

\* The networked methods that answer with what they read in response.json().
JsonReads == {"get_issuance_token", "register_callback", "list_callbacks"}

\* get_pass, get_issuance_token, suspend_pass, resume_pass, register_callback,
\* list_callbacks, delete_callback: the arguments of the request are evaluated,
\* get_headers() among them, which calls get_token().
CallNetworked(c, op) ==
    /\ pc[c] = "idle"
    /\ entry' = [entry EXCEPT ![c] = op]
    /\ sent' = [sent EXCEPT ![c] = 0]
    /\ netSent' = [netSent EXCEPT ![c] = 0]
    /\ bearer' = [bearer EXCEPT ![c] = 0]
    /\ headers' = [headers EXCEPT ![c] = <<>>]
    /\ reply' = [reply EXCEPT ![c] = 0]
    /\ pc' = [pc EXCEPT ![c] = IF NeedsRefresh THEN "auth" ELSE "ret"]
    /\ UNCHANGED <<now, ticks, token, heap, result, exchanges, grant>>
    /\ UNCHANGED <<pureVars, passVars, cbVars, eventVars, ingestVars>>

\* The defaults of get_headers(app_id, app_version); no caller passes others.
DefaultAppId == "acme-mobile-access"
DefaultAppVersion == "1.0.0"

\* get_headers() leaving the token out of the Authorization header.
GetHeadersAnonymous(tok) ==
    [h \in {"Authorization", "Application-ID", "Application-Version", "Content-Type"} |->
        CASE h = "Authorization" -> <<"Bearer ">>
          [] h = "Application-ID" -> <<DefaultAppId>>
          [] h = "Application-Version" -> <<DefaultAppVersion>>
          [] h = "Content-Type" -> <<"application/json">>]

\* get_headers(): the dict built around the string get_token() returned.
GetHeaders(tok) ==
    [h \in {"Authorization", "Application-ID", "Application-Version", "Content-Type"} |->
        CASE h = "Authorization" -> <<"Bearer ", tok>>
          [] h = "Application-ID" -> <<DefaultAppId>>
          [] h = "Application-Version" -> <<DefaultAppVersion>>
          [] h = "Content-Type" -> <<"application/json">>]

\* get_token() returns, get_headers() builds the headers, and the request leaves.
SendRequest(c) ==
    /\ pc[c] = "ret"
    /\ entry[c] \in {"delete_pass", "create_pass"} \cup PassReads \cup JsonReads
    /\ bearer' = [bearer EXCEPT ![c] = heap[token].access_token]
    /\ headers' = [headers EXCEPT ![c] = GetHeaders(heap[token].access_token)]
    /\ netSent' = [netSent EXCEPT ![c] = @ + 1]
    /\ pc' = [pc EXCEPT ![c] = "resp"]
    /\ UNCHANGED <<now, ticks, token, heap, entry, sent, result, exchanges, grant,
                   reply>>
    /\ UNCHANGED <<pureVars, passVars, cbVars, eventVars, ingestVars>>

\* The platform answers with `status`; raise_for_status() raises HTTPError on
\* 4xx and 5xx, otherwise delete_pass and delete_callback return True.
Reply(c, status) ==
    /\ pc[c] = "resp"
    /\ entry[c] \in {"delete_pass", "delete_callback"}
    /\ reply' = [reply EXCEPT ![c] = status]
    /\ result' = [result EXCEPT ![c] =
                    IF status >= 400 THEN Raised("HTTPError") ELSE Returned(TRUE)]
    /\ pc' = [pc EXCEPT ![c] = "idle"]
    /\ UNCHANGED <<now, ticks, token, heap, entry, sent, exchanges, grant, netSent,
                   bearer, headers>>
    /\ UNCHANGED <<pureVars, passVars, cbVars, eventVars, ingestVars>>

\* A request left without answer being sent again.
NetFailResend(c) ==
    /\ pc[c] = "resp"
    /\ netSent[c] < 3
    /\ pc' = [pc EXCEPT ![c] = "ret"]
    /\ UNCHANGED <<now, ticks, token, heap, entry, sent, result, exchanges, grant,
                   netVars>>
    /\ UNCHANGED <<pureVars, passVars, cbVars, eventVars, ingestVars>>

\* No answer: timeout or connection failure, raised by requests.
NetFail(c) ==
    /\ pc[c] = "resp"
    /\ result' = [result EXCEPT ![c] = Raised("RequestException")]
    /\ pc' = [pc EXCEPT ![c] = "idle"]
    /\ UNCHANGED <<now, ticks, token, heap, entry, sent, exchanges, grant, netVars>>
    /\ UNCHANGED <<pureVars, passVars, cbVars, eventVars, ingestVars>>

\* PassStatus: the values the enum accepts.
PassStatusValues ==
    {"PENDING", "PROVISIONING", "ACTIVE", "SUSPENDED", "CANCELLED", "DELETED"}

\* dict.get(key, default)
Get(data, key, default) == IF key \in DOMAIN data THEN data[key] ELSE default

\* Pass.from_api_response(data)
FromApiResponse(data) ==
    [id |-> Get(data, "id", "None"),
     user_id |-> Get(data, "userId", ""),
     pass_template_id |-> Get(data, "passTemplateId", ""),
     status |-> Get(data, "status", "PENDING")]

\* Bodies the platform may answer POST /pass with: the full representation, one
\* with keys left out, one with a status the enum does not know.
CreateResponses ==
    {[id |-> "pass-1", userId |-> "u1", passTemplateId |-> "tmpl", status |-> "PENDING"],
     [id |-> "pass-1", status |-> "ACTIVE"],
     [platform |-> "APPLE"],
     [id |-> "pass-1", status |-> "ISSUED"]}

\* create_pass(user_id, pass_template_id): the payload is built, then
\* get_headers() is called, which calls get_token().  What the payload holds
\* plays no part in how the call ends.
CallCreatePass(c) ==
    /\ pc[c] = "idle"
    /\ entry' = [entry EXCEPT ![c] = "create_pass"]
    /\ sent' = [sent EXCEPT ![c] = 0]
    /\ netSent' = [netSent EXCEPT ![c] = 0]
    /\ bearer' = [bearer EXCEPT ![c] = 0]
    /\ headers' = [headers EXCEPT ![c] = <<>>]
    /\ reply' = [reply EXCEPT ![c] = 0]
    /\ pc' = [pc EXCEPT ![c] = IF NeedsRefresh THEN "auth" ELSE "ret"]
    /\ UNCHANGED <<now, ticks, token, heap, result, exchanges, grant>>
    /\ UNCHANGED <<pureVars, passVars, cbVars, eventVars, ingestVars>>

\* create_pass answering with a Pass built from the body whatever the status.
ReplyCreateUnchecked(c, status, data) ==
    /\ pc[c] = "resp"
    /\ entry[c] = "create_pass"
    /\ reply' = [reply EXCEPT ![c] = status]
    /\ result' = [result EXCEPT ![c] =
                    IF Get(data, "status", "PENDING") \notin PassStatusValues
                    THEN Raised("ValueError")
                    ELSE Returned(FromApiResponse(data))]
    /\ pc' = [pc EXCEPT ![c] = "idle"]
    /\ UNCHANGED <<now, ticks, token, heap, entry, sent, exchanges, grant, netSent,
                   bearer, headers>>
    /\ UNCHANGED <<pureVars, passVars, cbVars, eventVars, ingestVars>>

\* The platform answers POST /pass with `status` and body `data`:
\* raise_for_status() raises HTTPError on 4xx and 5xx; PassStatus(...) raises
\* ValueError on a status it does not know; otherwise the Pass built from the
\* body is returned.  Nothing is kept by the client.
ReplyCreate(c, status, data) ==
    /\ pc[c] = "resp"
    /\ entry[c] = "create_pass"
    /\ reply' = [reply EXCEPT ![c] = status]
    /\ result' = [result EXCEPT ![c] =
                    IF status >= 400 THEN Raised("HTTPError")
                    ELSE IF Get(data, "status", "PENDING") \notin PassStatusValues
                         THEN Raised("ValueError")
                         ELSE Returned(FromApiResponse(data))]
    /\ pc' = [pc EXCEPT ![c] = "idle"]
    /\ UNCHANGED <<now, ticks, token, heap, entry, sent, exchanges, grant, netSent,
                   bearer, headers>>
    /\ UNCHANGED <<pureVars, passVars, cbVars, eventVars, ingestVars>>

\* Statuses the platform may answer POST /pass with.
CreateStatusCodes == {201, 400, 500}

\* get_pass, suspend_pass, resume_pass: raise_for_status() raises HTTPError on
\* 4xx and 5xx; otherwise the Pass built from the body is returned, or the
\* ValueError of PassStatus(...) raised.
ReplyPass(c, status, data) ==
    /\ pc[c] = "resp"
    /\ entry[c] \in PassReads
    /\ reply' = [reply EXCEPT ![c] = status]
    /\ result' = [result EXCEPT ![c] =
                    IF status >= 400 THEN Raised("HTTPError")
                    ELSE IF Get(data, "status", "PENDING") \notin PassStatusValues
                         THEN Raised("ValueError")
                         ELSE Returned(FromApiResponse(data))]
    /\ pc' = [pc EXCEPT ![c] = "idle"]
    /\ UNCHANGED <<now, ticks, token, heap, entry, sent, exchanges, grant, netSent,
                   bearer, headers>>
    /\ UNCHANGED <<pureVars, passVars, cbVars, eventVars, ingestVars>>

\* get_issuance_token, register_callback, list_callbacks: raise_for_status()
\* raises HTTPError on 4xx and 5xx; otherwise what the method reads in the
\* body is returned, whatever the body holds (data.get with defaults).
ReplyJson(c, status) ==
    /\ pc[c] = "resp"
    /\ entry[c] \in JsonReads
    /\ reply' = [reply EXCEPT ![c] = status]
    /\ result' = [result EXCEPT ![c] =
                    IF status >= 400 THEN Raised("HTTPError") ELSE Returned("json")]
    /\ pc' = [pc EXCEPT ![c] = "idle"]
    /\ UNCHANGED <<now, ticks, token, heap, entry, sent, exchanges, grant, netSent,
                   bearer, headers>>
    /\ UNCHANGED <<pureVars, passVars, cbVars, eventVars, ingestVars>>

\* Statuses the platform may answer the other requests with.
AnswerStatusCodes == {200, 404, 500}

NextNet ==
    \/ CallDeletePass(Main)
    \/ CallCreatePass(Main)
    \/ \E op \in PassReads \cup JsonReads \cup {"delete_callback"} : CallNetworked(Main, op)
    \/ \E status \in AnswerStatusCodes, data \in CreateResponses :
          ReplyPass(Main, status, data)
    \/ \E status \in AnswerStatusCodes : ReplyJson(Main, status)
    \/ \E status \in CreateStatusCodes, data \in CreateResponses :
          ReplyCreate(Main, status, data)
    \/ SendAuth(Main)
    \/ \E e \in ExpiresInValues \cup {Absent} : AuthOk(Main, e)
    \/ AuthFail(Main)
    \/ SendRequest(Main)
    \/ \E status \in StatusCodes : Reply(Main, status)
    \/ NetFail(Main)

SpecNet == Init /\ [][NextNet]_vars

-----------------------------------------------------------------------------
(* MockCallbackAPI: the in-memory callback registry.  A CallbackRegistration *)
(* is an object the caller constructs and hands over; the registry writes    *)
(* the id into that object and keeps a reference to it.                      *)

MaxRegs == 1
MaxCbCalls == 2

None == "None"
\* The id of a registration no registry has named yet (id: Optional[str] = None).
NoId == 0
Urls == {[scheme |-> "https", rest |-> "hooks.acme.example/origo"],
         [scheme |-> "http", rest |-> "hooks.acme.example/origo"]}
HeaderNames == {None, "Authorization"}
Secrets == {None, "s1"}
EventTypeLists == {<<>>, <<"PASS_CREATED">>}

\* CallbackRegistration(url, filter, http_header, secret): id is None until a
\* registry sets it.
NewRegistration(url, types, header, sec) ==
    /\ Len(regs) < MaxRegs
    /\ regs' = Append(regs, [url |-> url, event_types |-> types,
                             http_header |-> header, secret |-> sec, id |-> NoId])
    /\ UNCHANGED <<registry, nextCb, cblog, authVars, pureVars, passVars, eventVars,
                   ingestVars>>

\* uuid4().hex: a value no earlier call has produced.
FreshCallbackId == nextCb

\* register_callback(registration): whatever the registration holds, it gets a
\* fresh id, is stored under that id, and is returned.  Nothing is validated
\* and nothing is transmitted.  The entry keeps the registration as it was
\* handed over.
MockRegisterCallback(o) ==
    /\ Len(cblog) < MaxCbCalls
    /\ o \in DOMAIN regs
    /\ LET id == FreshCallbackId
       IN  /\ regs' = [regs EXCEPT ![o].id = id]
           /\ registry' = [k \in DOMAIN registry \cup {id} |->
                              IF k = id THEN o ELSE registry[k]]
           /\ cblog' = Append(cblog, [op |-> "register", obj |-> o, given |-> regs[o],
                                      outcome |-> "ok", id |-> id])
    /\ nextCb' = nextCb + 1
    /\ UNCHANGED <<authVars, pureVars, passVars, eventVars, ingestVars>>

\* MockOrigoAuth.authenticate: expires_in of the token it builds.
MockExpiresIn == 3600

\* Answers to DELETE /callback/{id}: a status, or 0 when no answer arrives.
DeleteAnswers == {0, 204, 404}

\* The ids a caller may name: more than the calls so far can have handed out.
CallbackIds == 1..MaxCbCalls

\* delete_callback(callback_id) on the in-memory registry: the method is the
\* networked one, inherited.  get_headers() makes MockOrigoAuth build a token
\* when none is usable; DELETE /callback/{id} is sent; a 4xx/5xx answer raises
\* HTTPError, no answer raises a RequestException, otherwise True is returned.
\* _registrations is not touched.
DeleteCallback(id, answer) ==
    /\ Len(cblog) < MaxCbCalls
    /\ IF NeedsRefresh
       THEN /\ heap' = Append(heap, NewToken(Len(heap) + 1, MockExpiresIn, now))
            /\ token' = Len(heap) + 1
       ELSE UNCHANGED <<heap, token>>
    /\ cblog' = Append(cblog, [op |-> "delete", id |-> id,
                               held |-> id \in DOMAIN registry,
                               outcome |-> IF answer = 0 THEN "RequestException"
                                           ELSE IF answer >= 400 THEN "HTTPError"
                                           ELSE "ok"])
    /\ UNCHANGED <<regs, registry, nextCb>>
    /\ UNCHANGED <<now, ticks, pc, entry, sent, result, exchanges, grant, netVars>>
    /\ UNCHANGED <<pureVars, passVars, eventVars, ingestVars>>

NextCallbacks ==
    \/ \E url \in Urls, types \in EventTypeLists, header \in HeaderNames,
          sec \in Secrets : NewRegistration(url, types, header, sec)
    \/ \E o \in 1..MaxRegs : MockRegisterCallback(o)
    \/ \E id \in CallbackIds, answer \in DeleteAnswers : DeleteCallback(id, answer)

SpecCallbacks == Init /\ [][NextCallbacks]_vars

-----------------------------------------------------------------------------
(* CallbackRegistration.to_dict: the body register_callback sends *)

\* Values of http_header and secret: None, the empty string, a value.
HeaderInputs == {None, "", "Authorization"}
SecretInputs == {None, "", "s1"}
EventTypeInputs == {<<>>, <<"PASS_CREATED">>, <<"PASS_CREATED", "USER_DELETED">>}
IdInputs == {NoId, 1}

\* bool(v) of an Optional[str]
Truthy(v) == v \notin {None, ""}

\* EventFilter.to_dict()
FilterToDict(types) == [eventTypes |-> types]

\* to_dict putting in each of httpHeader and secret that is set.
ToDictEach(r) ==
    LET data == [url |-> r.url, filter |-> FilterToDict(r.event_types)]
        withHeader == IF Truthy(r.http_header)
                      THEN data @@ [httpHeader |-> r.http_header] ELSE data
    IN  IF Truthy(r.secret) THEN withHeader @@ [secret |-> r.secret] ELSE withHeader

\* CallbackRegistration.to_dict(): url and filter always, httpHeader and secret
\* when both are truthy.
ToDict(r) ==
    LET data == [url |-> r.url, filter |-> FilterToDict(r.event_types)]
    IN  IF Truthy(r.http_header) /\ Truthy(r.secret)
        THEN data @@ [httpHeader |-> r.http_header, secret |-> r.secret]
        ELSE data

InitBody ==
    /\ InitAuth
    /\ InitPass
    /\ InitCallbacks
    /\ InitEvent
    /\ InitIngest
    /\ secret = <<<<>>, <<>>>>
    /\ printed = <<NoResult, NoResult>>
    /\ arg \in [url : Urls, event_types : EventTypeInputs, http_header : HeaderInputs,
                secret : SecretInputs, id : IdInputs]
    /\ out = NoResult

\* payload = registration.to_dict()
BuildBody ==
    /\ out = NoResult
    /\ out' = Returned(ToDict(arg))
    /\ UNCHANGED <<arg, secret, printed, authVars, passVars, cbVars, eventVars, ingestVars>>

NextBody == BuildBody

SpecBody == InitBody /\ [][NextBody]_vars

-----------------------------------------------------------------------------
(* CloudEvent: from_dict and interpret.  A payload is a dict: a function    *)
(* from the keys it holds.  A text is a sequence of lines and a line is the *)
(* sequence of the fragments its f-string joins.                            *)

\* A key left out of a payload.
Missing == "<missing>"
NoData == [missing |-> TRUE]
EmptyDict == <<>>

TypeInputs == {Missing, "", "PASS_UPDATED", "PASS_CREATED", "USER_CREATED",
               "USER_DELETED", "PASS_DELETED"}
SubjectInputs == {Missing, "pass/abc"}
TimeInputs == {Missing, "2025-11-10T14:05:00Z", "2025-11-10T14:06:00+00:00",
               "yesterday"}
DataInputs == {NoData,
               [status |-> "COMPLETED", userId |-> "u1"],
               [status |-> "SUSPENDED", userId |-> "u1"],
               [status |-> "ACTIVE"],
               [userId |-> "u1"]}

\* The dict with the keys that are given.
MkPayload(t, sub, tm, d) ==
    LET keys == (IF t = Missing THEN {} ELSE {"type"})
                \cup (IF sub = Missing THEN {} ELSE {"subject"})
                \cup (IF tm = Missing THEN {} ELSE {"time"})
                \cup (IF d = NoData THEN {} ELSE {"data"})
    IN  [k \in keys |-> CASE k = "type" -> t
                          [] k = "subject" -> sub
                          [] k = "time" -> tm
                          [] k = "data" -> d]

\* The CloudEvents metadata a payload may carry or leave out.
IdentInputs == {Missing, "evt-1"}
SourceInputs == {Missing, "origo"}
SpecVersionInputs == {Missing, "1.1"}

\* The dict p with the metadata keys that are given.
WithMeta(p, i, src, ver) ==
    LET keys == (IF i = Missing THEN {} ELSE {"id"})
                \cup (IF src = Missing THEN {} ELSE {"source"})
                \cup (IF ver = Missing THEN {} ELSE {"specversion"})
    IN  [k \in DOMAIN p \cup keys |->
            CASE k = "id" -> i
              [] k = "source" -> src
              [] k = "specversion" -> ver
              [] OTHER -> p[k]]

ParsePayloads ==
    {WithMeta(MkPayload(t, sub, tm, d), i, src, ver) :
        t \in TypeInputs, sub \in SubjectInputs, tm \in TimeInputs, d \in DataInputs,
        i \in IdentInputs, src \in SourceInputs, ver \in SpecVersionInputs}

\* s.replace("Z", "+00:00")
ReplaceZ(s) ==
    IF s = "2025-11-10T14:05:00Z" THEN "2025-11-10T14:05:00+00:00" ELSE s

\* datetime.fromisoformat(s): the instant (minutes into the day 2025-11-10), or
\* ValueError for a string that is not ISO 8601, the empty string included.
FromIsoFormat(s) ==
    CASE s = "2025-11-10T14:05:00+00:00" -> Returned(14 * 60 + 5)
      [] s = "2025-11-10T14:06:00+00:00" -> Returned(14 * 60 + 6)
      [] OTHER -> Raised("ValueError")

\* from_dict reading the metadata with payload["id"], payload["source"] and
\* payload["specversion"].
FromDictStrict(p) ==
    LET tm == FromIsoFormat(ReplaceZ(Get(p, "time", "")))
    IN  IF ~({"id", "source", "specversion"} \subseteq DOMAIN p) THEN Raised("KeyError")
        ELSE IF tm.kind = "raised" THEN tm
        ELSE Returned([id |-> p["id"],
                       type |-> Get(p, "type", ""),
                       subject |-> Get(p, "subject", ""),
                       time |-> tm.val,
                       data |-> Get(p, "data", EmptyDict),
                       source |-> p["source"],
                       specversion |-> p["specversion"]])

\* CloudEvent.from_dict(payload)
FromDict(p) ==
    LET tm == FromIsoFormat(ReplaceZ(Get(p, "time", "")))
    IN  IF tm.kind = "raised" THEN tm
        ELSE Returned([id |-> Get(p, "id", None),
                       type |-> Get(p, "type", ""),
                       subject |-> Get(p, "subject", ""),
                       time |-> tm.val,
                       data |-> Get(p, "data", EmptyDict),
                       source |-> Get(p, "source", None),
                       specversion |-> Get(p, "specversion", "1.0")])

\* The interpretations dict of interpret(): type -> interpreter.
Interpretations ==
    [PASS_UPDATED |-> "_interpret_pass_updated",
     PASS_CREATED |-> "_interpret_pass_created",
     USER_CREATED |-> "_interpret_user_created",
     USER_DELETED |-> "_interpret_user_deleted"]

\* interpretations[self.type]: no default.
InterpreterOfKnown(type) == Get(Interpretations, type, None)

\* interpretations.get(self.type, self._interpret_generic)
InterpreterFor(type) == Get(Interpretations, type, "_interpret_generic")

\* _interpret_pass_updated with the status compared against "ACTIVE".
InterpretPassUpdatedActive(ev) ==
    LET status == Get(ev.data, "status", "UNKNOWN")
    IN  IF status = "ACTIVE"
        THEN << <<"Pass ", ev.subject, " provisioning COMPLETED successfully.">>,
                <<"User ", Get(ev.data, "userId", None), " now has an active credential.">>,
                <<"Action: Update internal database to mark user's badge as ACTIVE.">>,
                <<"         Send confirmation notification to user.">>,
                <<"         Update access control system if needed.">> >>
        ELSE IF status = "SUSPENDED"
        THEN << <<"Pass ", ev.subject, " has been SUSPENDED.">>,
                <<"Action: Disable user's physical access in LenelS2.">>,
                <<"         Log the suspension event for audit.">> >>
        ELSE << <<"Pass ", ev.subject, " updated to status: ", status>> >>

InterpretPassUpdated(ev) ==
    LET status == Get(ev.data, "status", "UNKNOWN")
    IN  IF status = "COMPLETED"
        THEN << <<"Pass ", ev.subject, " provisioning COMPLETED successfully.">>,
                <<"User ", Get(ev.data, "userId", None), " now has an active credential.">>,
                <<"Action: Update internal database to mark user's badge as ACTIVE.">>,
                <<"         Send confirmation notification to user.">>,
                <<"         Update access control system if needed.">> >>
        ELSE IF status = "SUSPENDED"
        THEN << <<"Pass ", ev.subject, " has been SUSPENDED.">>,
                <<"Action: Disable user's physical access in LenelS2.">>,
                <<"         Log the suspension event for audit.">> >>
        ELSE << <<"Pass ", ev.subject, " updated to status: ", status>> >>

InterpretPassCreated(ev) ==
    << <<"New pass ", ev.subject, " created for user ", Get(ev.data, "userId", None), ".">>,
       <<"Action: Generate issuance token and send to user for provisioning.">> >>

InterpretUserCreated(ev) ==
    << <<"User ", ev.subject, " created in HID Origo.">>,
       <<"Action: Proceed with pass creation for this user.">> >>

InterpretUserDeleted(ev) ==
    << <<"User ", ev.subject, " deleted from HID Origo.">>,
       <<"Action: Cleanup any local references.">>,
       <<"         Revoke access in physical access control system.">> >>

InterpretGeneric(ev) ==
    << <<"Event ", ev.type, " received for ", ev.subject>> >>

\* interpret(): the interpreter looked up for self.type is called; calling
\* what is not an interpreter raises TypeError.
Interpret(ev) ==
    LET interpreter == InterpreterFor(ev.type)
    IN  CASE interpreter = "_interpret_pass_updated" -> Returned(InterpretPassUpdated(ev))
          [] interpreter = "_interpret_pass_created" -> Returned(InterpretPassCreated(ev))
          [] interpreter = "_interpret_user_created" -> Returned(InterpretUserCreated(ev))
          [] interpreter = "_interpret_user_deleted" -> Returned(InterpretUserDeleted(ev))
          [] interpreter = "_interpret_generic" -> Returned(InterpretGeneric(ev))
          [] OTHER -> Raised("TypeError")

InitEventInputs ==
    /\ InitAuth
    /\ InitPure
    /\ InitPass
    /\ InitCallbacks
    /\ InitIngest
    /\ payload \in ParsePayloads
    /\ event = NoResult
    /\ meaning = NoResult

\* event = CloudEvent.from_dict(payload)
ParseEvent ==
    /\ event = NoResult
    /\ event' = FromDict(payload)
    /\ UNCHANGED <<payload, meaning, authVars, pureVars, passVars, cbVars, ingestVars>>

\* event.interpret() storing the status it read back into the event's data.
InterpretEventStoring ==
    /\ event.kind = "value"
    /\ meaning = NoResult
    /\ meaning' = Interpret(event.val)
    /\ event' = IF event.val.type = "PASS_UPDATED"
                THEN Returned([event.val EXCEPT !.data =
                        [k \in DOMAIN event.val.data \cup {"status"} |->
                            IF k \in DOMAIN event.val.data THEN event.val.data[k]
                            ELSE "UNKNOWN"]])
                ELSE event
    /\ UNCHANGED <<payload, authVars, pureVars, passVars, cbVars, ingestVars>>

\* event.interpret(): the text is returned; nothing else is read or written.
InterpretEvent ==
    /\ event.kind = "value"
    /\ meaning = NoResult
    /\ meaning' = Interpret(event.val)
    /\ UNCHANGED <<payload, event, authVars, pureVars, passVars, cbVars, ingestVars>>

NextEvent ==
    \/ ParseEvent
    \/ InterpretEvent

SpecEvent == InitEventInputs /\ [][NextEvent]_vars

-----------------------------------------------------------------------------
(* handle_origo_webhook: the webhook endpoint of FLASK_WEBHOOK_EXAMPLE, the  *)
(* only code that ingests delivered events.  A request carries a batch of    *)
(* CloudEvents; the endpoint walks the batch in order and calls the handler  *)
(* of each event's type.  Replaying missed events means handing them to the  *)
(* same endpoint (CallbackRecovery, step 3).  Requests may overlap: a thread *)
(* switch can fall between two events.                                       *)

MaxBatch == 2
MaxHandled == 2

InboundEvents ==
    {[id |-> "e1", type |-> "PASS_UPDATED", subject |-> "pass/abc",
      time |-> "2025-11-10T14:05:00Z",
      data |-> [status |-> "COMPLETED", userId |-> "u1"]],
     [id |-> "e2", type |-> "PASS_UPDATED", subject |-> "pass/abc",
      time |-> "2025-11-10T14:06:00+00:00",
      data |-> [status |-> "SUSPENDED", userId |-> "u1"]],
     [id |-> "e3", type |-> "PASS_UPDATED", subject |-> "pass/abc",
      time |-> "2025-11-10T14:05:00Z"],
     [id |-> "e4", type |-> "USER_DELETED", subject |-> "user/u1",
      time |-> "2025-11-10T14:05:00Z", data |-> [userId |-> "u1"]],
     [id |-> "e5", type |-> "PASS_CREATED", subject |-> "pass/abc",
      time |-> "2025-11-10T14:05:00Z", data |-> [userId |-> "u1"]]}

Batches == UNION {[1..n -> InboundEvents] : n \in 1..MaxBatch}
SingleEventBatches == [1..1 -> InboundEvents]

\* A request whose Authorization header is not the expected one: 401, and the
\* body is not read.
RejectUnauthorized(c) ==
    /\ pc[c] = "idle"
    /\ entry' = [entry EXCEPT ![c] = "handle_origo_webhook"]
    /\ result' = [result EXCEPT ![c] = Returned(401)]
    /\ batch' = [batch EXCEPT ![c] = <<>>]
    /\ pos' = [pos EXCEPT ![c] = 1]
    /\ UNCHANGED <<handled, now, ticks, token, heap, pc, sent, exchanges, grant, netVars>>
    /\ UNCHANGED <<pureVars, passVars, cbVars, eventVars>>

\* An authorized request arrives: events = request.get_json().
Deliver(c, b) ==
    /\ pc[c] = "idle"
    /\ Len(handled) < MaxHandled
    /\ entry' = [entry EXCEPT ![c] = "handle_origo_webhook"]
    /\ result' = [result EXCEPT ![c] = NoResult]
    /\ batch' = [batch EXCEPT ![c] = b]
    /\ pos' = [pos EXCEPT ![c] = 1]
    /\ pc' = [pc EXCEPT ![c] = "h_loop"]
    /\ UNCHANGED <<handled, now, ticks, token, heap, sent, exchanges, grant, netVars>>
    /\ UNCHANGED <<pureVars, passVars, cbVars, eventVars>>

\* One turn of `for event in events`: PASS_UPDATED goes to handle_pass_updated,
\* which raises KeyError at event["data"] when the event has no data and so
\* ends the request; USER_DELETED goes to handle_user_deleted; any other type
\* has no handler.  Neither the event's id nor its time is looked at.
HandleEvent(c) ==
    /\ pc[c] = "h_loop"
    /\ pos[c] <= Len(batch[c])
    /\ LET ev == batch[c][pos[c]]
           type == Get(ev, "type", None)
       IN  IF type = "PASS_UPDATED" /\ "data" \notin DOMAIN ev
           THEN /\ handled' = Append(handled, [handler |-> "handle_pass_updated",
                                               event |-> ev, outcome |-> "KeyError"])
                /\ result' = [result EXCEPT ![c] = Raised("KeyError")]
                /\ pc' = [pc EXCEPT ![c] = "idle"]
                /\ pos' = pos
           ELSE /\ handled' =
                      IF type = "PASS_UPDATED"
                      THEN Append(handled, [handler |-> "handle_pass_updated",
                                            event |-> ev, outcome |-> "ok"])
                      ELSE IF type = "USER_DELETED"
                      THEN Append(handled, [handler |-> "handle_user_deleted",
                                            event |-> ev, outcome |-> "ok"])
                      ELSE handled
                /\ pos' = [pos EXCEPT ![c] = @ + 1]
                /\ UNCHANGED <<pc, result>>
    /\ UNCHANGED <<batch, entry, now, ticks, token, heap, sent, exchanges, grant, netVars>>
    /\ UNCHANGED <<pureVars, passVars, cbVars, eventVars>>

\* The batch is exhausted: 200 {"status": "received"}.
FinishRequest(c) ==
    /\ pc[c] = "h_loop"
    /\ pos[c] > Len(batch[c])
    /\ result' = [result EXCEPT ![c] = Returned(200)]
    /\ pc' = [pc EXCEPT ![c] = "idle"]
    /\ UNCHANGED <<batch, pos, handled, entry, now, ticks, token, heap, sent,
                   exchanges, grant, netVars>>
    /\ UNCHANGED <<pureVars, passVars, cbVars, eventVars>>

\* One request at a time.
NextIngest ==
    \/ RejectUnauthorized(Main)
    \/ \E b \in Batches : Deliver(Main, b)
    \/ HandleEvent(Main)
    \/ FinishRequest(Main)

SpecIngest == Init /\ [][NextIngest]_vars

\* Overlapping requests, each carrying one event.
NextIngestConc ==
    \/ \E c \in Callers : RejectUnauthorized(c)
    \/ \E c \in Callers, b \in SingleEventBatches : Deliver(c, b)
    \/ \E c \in Callers : HandleEvent(c)
    \/ \E c \in Callers : FinishRequest(c)

SpecIngestConc == Init /\ [][NextIngestConc]_vars

-----------------------------------------------------------------------------
(* Claims about the token manager *)

\* The data model's usability condition: now - obtained_at < expires_in - buffer.
Usable(tok, t) == (t - tok.obtained_at) < (tok.expires_in - 60)

GetTokenWaiting == {c \in Callers : pc[c] = "wait" /\ entry[c] = "get_token"}

\* C1: concurrent get_token() callers that find no valid token share a single
\* authentication exchange: never are two of their exchanges in flight at once.
SingleFlight == Cardinality(GetTokenWaiting) <= 1

\* C2 (as claimed): get_token() starts an exchange exactly when no token is
\* cached or the cached one fails the expiry check, and the record whose
\* access_token it returns passes the expiry check at the moment of return.
GetTokenReturnsValid ==
    \A c \in Callers :
        entry[c] = "get_token" =>
            /\ pc[c] = "auth" => (token = 0 \/ ~Usable(heap[token], now))
            /\ (pc[c] = "ret" /\ sent[c] = 0) =>
                   (token # 0 /\ Usable(heap[token], now))
            /\ pc[c] = "ret" => (token # 0 /\ Usable(heap[token], now))
            /\ (pc[c] = "idle" /\ result[c].kind = "value") =>
                   (token # 0 /\ result[c].val = heap[token].access_token)

\* C2 (amended): get_token() starts an exchange exactly when no token is cached
\* or the cached one fails the expiry check (with expires_in = 3600: none while
\* elapsed < 3540, one at any elapsed >= 3540); the string it returns is the
\* access_token of the cached record, which passes the expiry check at the
\* moment of return whenever the platform gave it more than 60 seconds to live.
GetTokenLazyRefresh ==
    \A c \in Callers :
        entry[c] = "get_token" =>
            /\ pc[c] = "auth" => (token = 0 \/ ~Usable(heap[token], now))
            /\ (pc[c] = "ret" /\ sent[c] = 0) =>
                   (token # 0 /\ Usable(heap[token], now))
            /\ pc[c] = "ret" =>
                   /\ token # 0
                   /\ heap[token].expires_in > 60 => Usable(heap[token], now)
            /\ (pc[c] = "idle" /\ result[c].kind = "value") =>
                   (token # 0 /\ result[c].val = heap[token].access_token)

\* get_token() called 3550 seconds after a token with expires_in = 3600 was
\* obtained, and on its way to authenticate().
RefreshAt3550 ==
    /\ pc[Main] = "auth"
    /\ entry[Main] = "get_token"
    /\ token # 0
    /\ heap[token].expires_in = 3600
    /\ now - heap[token].obtained_at = 3550

\* C3 (as claimed): for every record and clock value, is_expired() is false
\* iff now - obtained_at < expires_in - 60.
ExpiredIffNotUsable ==
    out # NoResult => (out.val = FALSE <=> Usable(arg, arg.now))

\* C3 (amended): for every record whose obtained_at is set (non-zero) and every
\* clock value, is_expired() is false iff now - obtained_at < expires_in - 60;
\* a record whose obtained_at is unset (0) is reported expired at every time.
ExpiredIffNotUsableWhenStamped ==
    out # NoResult =>
        IF arg.obtained_at = 0 THEN out.val = TRUE
        ELSE (out.val = FALSE <=> Usable(arg, arg.now))

\* is_expired() evaluated on a stamped record exactly at the buffer boundary.
EvaluatedAtBoundary ==
    /\ out # NoResult
    /\ arg.obtained_at = 100
    /\ arg.expires_in = 3600
    /\ arg.now = 3640
    /\ out.val = TRUE

\* C4 (as claimed): whatever expires_in the platform declared, the token is
\* not expired at the instant authenticate() returns, and is expired once
\* expires_in - 60 seconds have passed.
FreshTokenNotExpired ==
    (token # 0 /\ grant.expires_in # Absent) =>
        /\ now = grant.at => ~IsExpired(heap[token], now, BufferSeconds)
        /\ now - grant.at >= grant.expires_in - 60 =>
               IsExpired(heap[token], now, BufferSeconds)

\* C4 (amended): a token for which the platform declared expires_in > 60 is
\* not expired at the instant authenticate() returns; every token is expired
\* once expires_in - 60 seconds have passed since then.
FreshTokenNotExpiredAboveBuffer ==
    (token # 0 /\ grant.expires_in # Absent) =>
        /\ (now = grant.at /\ grant.expires_in > 60) =>
               ~IsExpired(heap[token], now, BufferSeconds)
        /\ now - grant.at >= grant.expires_in - 60 =>
               IsExpired(heap[token], now, BufferSeconds)

\* A token declared for 3600 seconds, 3540 seconds after authenticate().
TokenAgedToBoundary ==
    /\ token # 0
    /\ grant.expires_in = 3600
    /\ now - grant.at = 3540
    /\ IsExpired(heap[token], now, BufferSeconds)

\* C5: one authenticate() sends exactly one token request; when it fails the
\* call ends raising to its caller, with no second request.
OneRequestPerAuthenticate ==
    \A c \in Callers :
        /\ sent[c] <= 1
        /\ pc[c] = "wait" => sent[c] = 1
        /\ (pc[c] = "idle" /\ result[c].kind = "raised") => sent[c] = 1
        /\ (pc[c] = "idle" /\ entry[c] = "authenticate") => sent[c] = 1

\* authenticate() has failed and raised.
AuthenticateRaised ==
    /\ pc[Main] = "idle"
    /\ entry[Main] = "authenticate"
    /\ result[Main] = Raised("RequestException")
    /\ sent[Main] = 1

\* C6: a failed exchange leaves the cached record untouched; a successful one
\* caches a newly built record; no record already built ever changes.
SupersededNeverMutated ==
    [][/\ Len(heap') >= Len(heap)
       /\ \A i \in 1..Len(heap) : heap'[i] = heap[i]
       /\ token' # token => (token' = Len(heap) + 1 /\ Len(heap') = Len(heap) + 1)
       /\ \A c \in Callers :
              (pc[c] = "wait" /\ pc'[c] = "idle" /\ result'[c].kind = "raised") =>
                  (token' = token /\ heap' = heap)]_vars

\* A refresh has failed while a token was cached, and the token is still there.
FailedRefreshKeptToken ==
    /\ pc[Main] = "idle"
    /\ result[Main].kind = "raised"
    /\ token # 0
    /\ heap[token].obtained_at < now

\* C37: under a non-decreasing clock expiry is monotone: a token record that
\* is_expired() reports expired is reported expired at every later time; the
\* cached token goes from expired to not expired only when a successful
\* authentication exchange replaces it with a new record; and a record whose
\* obtained_at was never set is reported expired whenever it is asked.
ExpiryMonotone ==
    /\ [][now' >= now =>
            \A i \in DOMAIN heap :
                IsExpired(heap[i], now, BufferSeconds) =>
                    /\ i \in DOMAIN heap'
                    /\ IsExpired(heap'[i], now', BufferSeconds)]_vars
    /\ [][(/\ token # 0 /\ IsExpired(heap[token], now, BufferSeconds)
           /\ token' # 0 /\ ~IsExpired(heap'[token'], now', BufferSeconds)) =>
              /\ pc[Main] = "wait"
              /\ token' # token
              /\ Len(heap') = Len(heap) + 1 /\ token' = Len(heap')]_vars
    /\ []((out.kind = "value" /\ arg.obtained_at = 0) => out.val = TRUE)

\* A token that expired as the clock moved on was replaced by a usable one, and
\* a record nobody stamped has been asked.
ExpiredThenSuperseded ==
    /\ Len(heap) = 2 /\ token = 2
    /\ heap[1].expires_in = DefaultExpiresIn
    /\ IsExpired(heap[1], now, BufferSeconds)
    /\ ~IsExpired(heap[2], now, BufferSeconds)
    /\ out.kind = "value" /\ arg.obtained_at = 0

-----------------------------------------------------------------------------
(* Claims about the credential lifecycle *)

\* C7: suspend_pass changes a status only ACTIVE -> SUSPENDED and resume_pass
\* only SUSPENDED -> ACTIVE; called on a pass in any other state (one that is
\* neither the source nor the target of the edge) they signal
\* InvalidStateTransition and leave the status as it was.
LifecycleEdgesOnly ==
    \A i \in DOMAIN log :
        /\ (log[i].op = "suspend" /\ log[i].before \notin {"ACTIVE", "SUSPENDED", "absent"}) =>
               (log[i].outcome = "InvalidStateTransition" /\ log[i].after = log[i].before)
        /\ (log[i].op = "resume" /\ log[i].before \notin {"SUSPENDED", "ACTIVE", "absent"}) =>
               (log[i].outcome = "InvalidStateTransition" /\ log[i].after = log[i].before)

\* C8: resume_pass on a PENDING pass raises InvalidStateTransition and the pass
\* does not become ACTIVE.
ResumePendingRejected ==
    \A i \in DOMAIN log :
        (log[i].op = "resume" /\ log[i].before = "PENDING") =>
            (log[i].outcome = "InvalidStateTransition" /\ log[i].after # "ACTIVE")

\* C9: when suspend_pass(p) has succeeded, an immediately repeated
\* suspend_pass(p) succeeds too, returns a SUSPENDED pass and changes nothing.
SuspendIdempotent ==
    \A i \in DOMAIN log :
        (/\ i > 1
         /\ log[i].op = "suspend"
         /\ log[i - 1].op = "suspend"
         /\ log[i - 1].outcome = "ok"
         /\ log[i - 1].id = log[i].id) =>
            /\ log[i].outcome = "ok"
            /\ log[i].ret = "SUSPENDED"
            /\ log[i].after = "SUSPENDED"
            /\ ~log[i].changed

\* suspend_pass(p) has succeeded twice in a row, and p is stored as SUSPENDED.
SuspendedTwice ==
    \E i \in DOMAIN log :
        /\ i > 1
        /\ log[i].op = "suspend"
        /\ log[i - 1].op = "suspend"
        /\ log[i - 1].outcome = "ok"
        /\ log[i - 1].id = log[i].id
        /\ i = Len(log)
        /\ StatusOf(passes, log[i].id) = "SUSPENDED"

\* C10: delete_pass on an id that was never created or is already deleted
\* succeeds as a no-op, in the in-memory engine (the id is not a key) and in
\* the networked one (the platform answers 404 Not Found).
DeleteUnknownSucceeds ==
    /\ \A i \in DOMAIN log :
           (log[i].op = "delete" /\ log[i].before = "absent") =>
               (log[i].outcome = "ok" /\ ~log[i].changed)
    /\ \A c \in Callers :
           (entry[c] = "delete_pass" /\ pc[c] = "idle" /\ reply[c] = 404) =>
               result[c] = Returned(TRUE)

SamePassSerialized ==
    \A c \in Callers :
        (pc[c] = "idle" /\ entry[c] \in EngineOps /\ result[c].kind = "raised") =>
            /\ entry[c] # "delete_pass"
            /\ result[c].exc = "ValueError"

\* C13: every Pass returned by create_pass(user_id, template_id) has status
\* PENDING, carries the user_id and the template id it was given, and is bound
\* to an id that was not stored and that no earlier create_pass handed out.
CreatedPassPending ==
    \A i \in DOMAIN log :
        log[i].op = "create" =>
            /\ log[i].outcome = "ok"
            /\ log[i].pass.status = "PENDING"
            /\ log[i].pass.user_id = log[i].user_id
            /\ log[i].pass.pass_template_id = log[i].pass_template_id
            /\ log[i].pass.id = log[i].id
            /\ log[i].before = "absent"
            /\ \A j \in DOMAIN log :
                   (j < i /\ log[j].op = "create") => log[j].id # log[i].id

\* A pass was created, deleted, and another pass created for another user.
CreatedAgainAfterDelete ==
    \E i, j, k \in DOMAIN log :
        /\ i < j /\ j < k
        /\ log[i].op = "create" /\ log[k].op = "create"
        /\ log[j].op = "delete" /\ log[j].id = log[i].id
        /\ log[i].user_id # log[k].user_id

\* C14: a create_pass that fails (the token exchange fails, the request gets
\* no answer, the platform answers 4xx or 5xx, or the body cannot be read as a
\* Pass) ends with an exception: no Pass, whole or partial, is returned, and no
\* Pass record is stored.
FailedCreateLeavesNothing ==
    \A c \in Callers :
        (pc[c] = "idle" /\ entry[c] = "create_pass") =>
            /\ passes = <<>>
            /\ (netSent[c] = 0 \/ reply[c] = 0 \/ reply[c] >= 400) =>
                   result[c].kind = "raised"
            /\ result[c].kind = "value" =>
                   /\ reply[c] \in 200..299
                   /\ result[c].val.status \in PassStatusValues

\* create_pass ended on a 4xx/5xx answer whose body could be read as a Pass.
CreateRefusedByPlatform ==
    \E c \in Callers :
        /\ pc[c] = "idle" /\ entry[c] = "create_pass"
        /\ reply[c] >= 400
        /\ result[c] = Raised("HTTPError")

\* C15: get_issuance_token(pass_id) signals NotFoundError and issues no token
\* when pass_id was never created, and issues no token for a pass that has been
\* deleted.
TokenOnlyForLivePass ==
    \A i \in DOMAIN log :
        (log[i].op = "token" /\ log[i].before = "absent") =>
            /\ log[i].outcome = "NotFoundError"
            /\ log[i].ret = "none"

\* C16: no two get_issuance_token calls return the same token value; each
\* returned token is bound to the pass_id that was requested; the engine keeps
\* no copy: the call leaves the stored passes as they were.
TokensNeverRepeat ==
    \A i \in DOMAIN log :
        log[i].op = "token" =>
            /\ log[i].token.pass_id = log[i].id
            /\ log[i].before = log[i].after
            /\ ~log[i].changed
            /\ \A j \in DOMAIN log :
                   (j # i /\ log[j].op = "token") =>
                       log[j].token.token # log[i].token.token

\* Two tokens were requested for the same pass, and one for another pass.
TokensRequestedTwice ==
    \E i, j, k \in DOMAIN log :
        /\ i < j
        /\ log[i].op = "token" /\ log[j].op = "token" /\ log[k].op = "token"
        /\ log[i].id = log[j].id
        /\ log[k].id # log[i].id
        /\ log[i].before = "PENDING"

\* C17: get_issuance_token writes no part of the token's value to its output:
\* two runs that differ only in the token value print the same text, and the
\* text holds no character of the token.
TokenNeverPrinted ==
    printed[1] # NoResult =>
        /\ printed[1] = printed[2]
        /\ printed[1].val = <<>>

\* C30: suspend_pass and resume_pass called with a pass_id the engine does not
\* hold (never created, or deleted) signal that the pass was not found, return
\* nothing and leave every stored pass as it was.
UnknownPassLeftAlone ==
    [][(Len(log') = Len(log) + 1
          /\ log'[Len(log')].op \in {"suspend", "resume"}
          /\ log'[Len(log')].id \notin DOMAIN passes) =>
            /\ log'[Len(log')].outcome = "ValueError"
            /\ log'[Len(log')].ret = "none"
            /\ passes' = passes]_vars

\* suspend_pass or resume_pass was called with an id that was never created
\* while another pass was stored.
UnknownPassTouched ==
    \E i, j \in DOMAIN log :
        /\ i < j
        /\ log[i].op = "create" /\ log[i].id \in DOMAIN passes
        /\ log[j].op \in {"suspend", "resume"}
        /\ log[j].id >= nextId
        /\ log[j].before = "absent"

\* C31: a pass's id is assigned once at creation and never changes: every
\* stored pass is stored under its own id, and its id, user_id and template id
\* are those of the Pass create_pass returned.
PassIdentityKept ==
    \A id \in DOMAIN passes :
        /\ passes[id].id = id
        /\ \E i \in DOMAIN log :
              /\ log[i].op = "create"
              /\ log[i].pass.id = id
              /\ passes[id].user_id = log[i].pass.user_id
              /\ passes[id].pass_template_id = log[i].pass.pass_template_id

\* A pass was created, then suspended or resumed, and is still stored, after a
\* delete_pass call on the engine.
PassKeptThroughLifecycle ==
    \E i, j, k \in DOMAIN log :
        /\ i < j
        /\ log[i].op = "create" /\ log[i].id \in DOMAIN passes
        /\ log[j].op \in {"suspend", "resume"}
        /\ log[j].id = log[i].id /\ log[j].outcome = "ok"
        /\ log[k].op = "delete"

\* The calls made on pass id, by position in the log.
CallsOn(id) == {i \in DOMAIN log : log[i].id = id}

\* The status the calls on pass id alone leave it with, up to position n.
StatusByOwnCalls(id, n) ==
    LET own == {i \in CallsOn(id) : i <= n}
    IN  IF own = {} THEN "absent"
        ELSE log[CHOOSE i \in own : \A k \in own : k <= i].after

\* C32: operations on different passes are independent: a suspend_pass,
\* resume_pass, delete_pass or get_issuance_token call on p leaves the
\* existence and every field of each pass q # p unchanged, and what a pass is
\* after any interleaving of calls is what the calls on that pass alone make
\* it, so calls on p and q give the same final state in either order.
PassesIndependent ==
    /\ [][(Len(log') = Len(log) + 1
            /\ log'[Len(log')].op \in {"suspend", "resume", "delete", "token"}) =>
              \A q \in PassIds \ {log'[Len(log')].id} :
                  /\ q \in DOMAIN passes' <=> q \in DOMAIN passes
                  /\ q \in DOMAIN passes => passes'[q] = passes[q]]_vars
    /\ [](\A id \in PassIds :
            /\ StatusOf(passes, id) = StatusByOwnCalls(id, Len(log))
            /\ \A i \in CallsOn(id) : log[i].before = StatusByOwnCalls(id, i - 1))

\* The same frame one statement at a time, under SpecPassConc: a step that
\* changes a stored pass or removes it is the write of a thread whose call is
\* on that pass.
StepsTouchOwnPass ==
    [][\A q \in DOMAIN passes :
          (q \notin DOMAIN passes' \/ passes'[q] # passes[q]) =>
              \E c \in Callers :
                  pc[c] = "m_write" /\ pc'[c] # pc[c] /\ target[c] = q]_vars

\* A call acted on a stored pass while another pass, created earlier, was
\* stored and stayed stored.
OtherPassStoredDuringCall ==
    \E i, j \in DOMAIN log :
        /\ i < j
        /\ log[i].op = "create" /\ log[i].id \in DOMAIN passes
        /\ log[j].op \in {"suspend", "resume", "delete"}
        /\ log[j].id # log[i].id
        /\ log[j].changed

\* C38: in the in-memory engine the status of every stored pass is PENDING,
\* ACTIVE or SUSPENDED, never PROVISIONING, CANCELLED or DELETED, and a pass
\* that was stored and deleted is absent from the store.
StoredStatusesLive ==
    /\ \A id \in DOMAIN passes :
          passes[id].status \in {"PENDING", "ACTIVE", "SUSPENDED"}
    /\ \A i \in DOMAIN log :
          (log[i].op = "delete" /\ log[i].before # "absent") =>
              log[i].id \notin DOMAIN passes

\* One pass is stored SUSPENDED and another, stored before, has been deleted.
SuspendedBesideDeleted ==
    /\ \E id \in DOMAIN passes : passes[id].status = "SUSPENDED"
    /\ \E i \in DOMAIN log : log[i].op = "delete" /\ log[i].changed

-----------------------------------------------------------------------------
(* Claims about the callback registry *)

\* The registration the registry holds under id.
Held(id) == regs[registry[id]]

\* http_header and secret are both given or both left out.
Paired(r) == (r.http_header = None) <=> (r.secret = None)

\* C18: registering a CallbackRegistration with http_header set and secret
\* omitted, or secret set and http_header omitted, fails with ValidationError:
\* no id is assigned and nothing is stored.
UnpairedAuthRejected ==
    /\ \A i \in DOMAIN cblog :
          (cblog[i].op = "register" /\ ~Paired(cblog[i].given)) =>
              /\ cblog[i].outcome = "ValidationError"
              /\ cblog[i].id = NoId
    /\ \A id \in DOMAIN registry : Paired(Held(id))

\* C19: register rejects every registration whose url is not HTTPS: such a call
\* assigns no id and stores nothing, so every registration held has an HTTPS
\* url.
HttpsOnly ==
    /\ \A i \in DOMAIN cblog :
          (cblog[i].op = "register" /\ cblog[i].given.url.scheme # "https") =>
              /\ cblog[i].outcome # "ok"
              /\ cblog[i].id = NoId
    /\ \A id \in DOMAIN registry : Held(id).url.scheme = "https"

\* C20: after a registration that carried a secret, the registry holds no copy
\* of the secret: what it keeps under each id is the same whatever the secret
\* was.
NoSecretHeld == \A id \in DOMAIN registry : Held(id).secret = None

\* C21: delete(id) on a registered id removes that registration from the
\* registry and leaves the others as they were; delete(id) on an id that is
\* not registered signals NotFoundError; either way a delete that does not
\* succeed changes nothing.
DeleteRemovesRegistration ==
    \A i \in DOMAIN cblog :
        cblog[i].op = "delete" =>
            /\ (cblog[i].held /\ cblog[i].outcome = "ok") =>
                   cblog[i].id \notin DOMAIN registry
            /\ ~cblog[i].held => cblog[i].outcome \in {"NotFoundError", "HTTPError"}

-----------------------------------------------------------------------------
(* Claims about CloudEvent parsing and interpretation *)

\* The payload's time is given and is an ISO 8601 string.
TimeParsable(p) ==
    "time" \in DOMAIN p /\ p["time"] \in {"2025-11-10T14:05:00Z", "2025-11-10T14:06:00+00:00"}

\* C24: parsing a payload that has no type, no subject, or a missing or
\* unparsable time fails: an error is raised and no CloudEvent is produced.
MalformedRejected ==
    (event # NoResult /\ ("type" \notin DOMAIN payload \/ "subject" \notin DOMAIN payload
                          \/ ~TimeParsable(payload))) =>
        event.kind = "raised"

\* The lines of an interpretation.
Lines(text) == {text[i] : i \in DOMAIN text}

\* C27: interpret is total over the type string: PASS_UPDATED, PASS_CREATED,
\* USER_CREATED and USER_DELETED events get the text of their own interpreter,
\* every other type, the empty string included, gets the generic text, and
\* interpret never raises.
InterpretTotal ==
    meaning # NoResult =>
        /\ meaning.kind = "value"
        /\ LET ev == event.val
               first == meaning.val[1]
           IN  CASE ev.type = "PASS_UPDATED" -> first[1] = "Pass " /\ first[2] = ev.subject
                 [] ev.type = "PASS_CREATED" -> first[1] = "New pass " /\ first[2] = ev.subject
                 [] ev.type = "USER_CREATED" -> first[3] = " created in HID Origo."
                 [] ev.type = "USER_DELETED" -> first[3] = " deleted from HID Origo."
                 [] OTHER -> meaning.val =
                                << <<"Event ", ev.type, " received for ", ev.subject>> >>

\* An event whose payload had no type was interpreted.
InterpretedUntyped ==
    /\ meaning # NoResult
    /\ "type" \notin DOMAIN payload
    /\ event.val.type = ""

\* C28 (as stated): the scenario's event, given by type PASS_UPDATED, subject
\* and data {status COMPLETED, userId} only, is accepted.
ScenarioAccepted ==
    (event # NoResult
       /\ payload = MkPayload("PASS_UPDATED", "pass/abc", Missing,
                              [status |-> "COMPLETED", userId |-> "u1"])) =>
        event.kind = "value"

\* C28 (amended): a PASS_UPDATED event that was accepted (its payload carries a
\* parsable time) and whose data.status is COMPLETED interprets to a text that
\* names its subject and the user of data.userId and tells to mark the badge
\* ACTIVE and to notify the user; with any other status the text does not tell
\* to mark anything ACTIVE.
CompletedMeansActive ==
    (meaning # NoResult /\ event.val.type = "PASS_UPDATED") =>
        LET ev == event.val
            markActive == <<"Action: Update internal database to mark user's badge as ACTIVE.">>
            notify == <<"         Send confirmation notification to user.">>
        IN  /\ meaning.kind = "value"
            /\ IF "status" \in DOMAIN ev.data /\ ev.data["status"] = "COMPLETED"
               THEN /\ meaning.val[1] = <<"Pass ", ev.subject, " provisioning COMPLETED successfully.">>
                    /\ <<"User ", Get(ev.data, "userId", None), " now has an active credential.">>
                           \in Lines(meaning.val)
                    /\ markActive \in Lines(meaning.val)
                    /\ notify \in Lines(meaning.val)
               ELSE /\ markActive \notin Lines(meaning.val)
                    /\ notify \notin Lines(meaning.val)

\* The scenario's event, with a time, was interpreted.
ScenarioInterpreted ==
    /\ meaning # NoResult
    /\ payload = MkPayload("PASS_UPDATED", "pass/abc", "2025-11-10T14:05:00Z",
                           [status |-> "COMPLETED", userId |-> "u1"])

\* C29: interpret has no side effect: the step that produces the
\* interpretation leaves the event, the payload, every Pass record, the token
\* state and the callback registry as they were and sends no request.
InterpretHasNoEffect ==
    [][meaning' # meaning =>
          /\ event' = event
          /\ payload' = payload
          /\ passes' = passes
          /\ token' = token /\ heap' = heap
          /\ regs' = regs /\ registry' = registry
          /\ exchanges' = exchanges /\ netSent' = netSent]_vars

\* A PASS_UPDATED event whose data holds no status was interpreted.
InterpretedWithoutStatus ==
    /\ meaning # NoResult
    /\ event.val.type = "PASS_UPDATED"
    /\ "status" \notin DOMAIN event.val.data

-----------------------------------------------------------------------------
(* Claims about event ingestion *)

\* The handler invocations made for the event id `id`.
InvocationsOf(id) == {i \in DOMAIN handled : handled[i].event.id = id}

\* The instant an inbound event carries.
InstantOf(ev) == FromIsoFormat(ReplaceZ(ev.time)).val

\* C22: over any sequence of deliveries the handler of a given CloudEvent id
\* is invoked at most once.
HandlerAtMostOnce ==
    \A ev \in InboundEvents : Cardinality(InvocationsOf(ev.id)) <= 1

\* C23: when two requests carrying the same event are in progress at once and
\* both have gone past that event, exactly one of them has invoked the handler.
ConcurrentDeliveryHandledOnce ==
    \A c, d \in Callers :
        (c # d /\ pc[c] = "h_loop" /\ pc[d] = "h_loop"
           /\ batch[c] = batch[d] /\ pos[c] = 2 /\ pos[d] = 2
           /\ batch[c][1].type \in {"PASS_UPDATED", "USER_DELETED"}) =>
            Cardinality(InvocationsOf(batch[c][1].id)) = 1

\* C25: the events of one subject are applied in non-decreasing time order,
\* whatever the order of arrival, so the last one applied for a subject is
\* the one with the latest time.
AppliedInTimeOrder ==
    \A i, j \in DOMAIN handled :
        (i < j /\ handled[i].event.subject = handled[j].event.subject
           /\ handled[i].outcome = "ok" /\ handled[j].outcome = "ok") =>
            InstantOf(handled[i].event) <= InstantOf(handled[j].event)

\* C26: a replay of a finite batch attempts every event of the batch: when the
\* request has ended, no event after a failed one is left unattempted.
BatchFullyAttempted ==
    \A c \in Callers :
        (pc[c] = "idle" /\ entry[c] = "handle_origo_webhook" /\ batch[c] # <<>>) =>
            IF result[c].kind = "raised"
            THEN pos[c] = Len(batch[c])
            ELSE pos[c] > Len(batch[c])

\* C35: in the in-memory callback registry every stored entry is stored under
\* its own id (the registration stored at key k has id = k) and distinct keys
\* hold distinct registrations, after any sequence of register_callback calls,
\* registering the same CallbackRegistration object again included.
RegistryKeysAreIds ==
    /\ \A k \in DOMAIN registry : Held(k).id = k
    /\ \A k1, k2 \in DOMAIN registry : k1 # k2 => registry[k1] # registry[k2]

\* C36: whatever combination of http_header and secret a CallbackRegistration
\* holds, the body to_dict builds contains httpHeader if and only if it
\* contains secret, and its url and filter.eventTypes are the registration's
\* url and event_types.
BodyPairsHeaderAndSecret ==
    out.kind = "value" =>
        /\ "httpHeader" \in DOMAIN out.val <=> "secret" \in DOMAIN out.val
        /\ "url" \in DOMAIN out.val /\ out.val.url = arg.url
        /\ "filter" \in DOMAIN out.val /\ out.val.filter.eventTypes = arg.event_types

\* The body of a registration that holds a header name and no secret.
BodyOfUnpairedRegistration ==
    /\ out.kind = "value"
    /\ arg.http_header = "Authorization" /\ arg.secret = None
    /\ DOMAIN out.val = {"url", "filter"}

\* C39: CloudEvent.from_dict never fails because id, source, data or
\* specversion is missing: a payload with a parsable time parses whatever else
\* it leaves out, and one without id yields an event whose id is None, as one
\* without data yields empty data, one without source a source of None and one
\* without specversion "1.0"; every id-less event so carries the same id.
MetadataOptional ==
    event # NoResult =>
        /\ TimeParsable(payload) => event.kind = "value"
        /\ event.kind = "value" =>
              /\ "id" \notin DOMAIN payload => event.val.id = None
              /\ "id" \in DOMAIN payload => event.val.id = payload["id"]
              /\ "data" \notin DOMAIN payload => event.val.data = EmptyDict
              /\ "source" \notin DOMAIN payload => event.val.source = None
              /\ "specversion" \notin DOMAIN payload => event.val.specversion = "1.0"

\* A payload holding nothing but a parsable time was parsed.
BareEventParsed ==
    /\ DOMAIN payload = {"time"}
    /\ event.kind = "value"
    /\ event.val.id = None

-----------------------------------------------------------------------------
(* Claims about the networked clients *)

\* Every method of the networked clients that sends a pass or callback request.
NetworkedOps ==
    {"create_pass", "delete_pass", "delete_callback"} \cup PassReads \cup JsonReads

Writes ==
    {"create_pass", "suspend_pass", "resume_pass", "delete_pass",
     "register_callback", "delete_callback"}

====
